---- MODULE Spec2Model ----
(***************************************************************************)
(* Model of the interval heap of src/src/lib.rs (crate interval-heap):     *)
(* a double-ended priority queue stored in one Vec, two slots per node.    *)
(* Slot indices are the 0-based indices of the source; At and swap map     *)
(* them onto TLA+'s 1-based sequences.  The comparator is the natural      *)
(* order on a small range of integers.                                      *)
(***************************************************************************)
EXTENDS Integers, Sequences, FiniteSets, Bags, TLC

\* Largest number of items the heap holds in the model.
MaxLen == 7
\* Items are drawn from 0 .. MaxVal.
MaxVal == 2

\* Slot indices the addressing functions are tried on: 0 .. MaxIndex.
MaxIndex == 63

Values == 0 .. MaxVal

VARIABLES
    data,       \* IntervalHeap.data : Vec<T>
    peek,       \* the live MutPeek's field t, "Min" or "Max"; "None" when no handle is alive
    debug,      \* whether the build has debug_assertions on (debug_assert! is checked)
    panicked,   \* the thread has panicked
    last,       \* the operation that ran last
    arg,        \* its argument (a sequence; <<>> when it has none)
    before,     \* data when it started
    held,       \* data when the last MutPeek was acquired (<<>> once another operation has run)
    result      \* its return value as a sequence: <<>> None, <<x>> Some(x), <<a, b>> Some((a, b)), a Vec as itself

vars == <<data, peek, debug, panicked, last, arg, before, held, result>>

----------------------------------------------------------------------------
(* Vec and slice primitives, 0-based.                                      *)

At(v, i) == v[i + 1]

\* swap that copies slot j over slot i and leaves slot j as it is.
swap_copy(v, i, j) == [v EXCEPT ![i + 1] = v[j + 1]]

swap(v, i, j) == [v EXCEPT ![i + 1] = v[j + 1], ![j + 1] = v[i + 1]]

\* Vec::swap_remove(i): removes slot i and puts the last item in its place.
swap_remove(v, i) ==
    LET n == Len(v)
        front == SubSeq(v, 1, n - 1)
    IN  [ret |-> At(v, i),
         v   |-> IF i = n - 1 THEN front ELSE [front EXCEPT ![i + 1] = At(v, n - 1)]]

\* All Vecs of at most n items.
Vecs(n) == UNION {[1 .. k -> Values] : k \in 0 .. n}

----------------------------------------------------------------------------
(* Node addressing.                                                        *)

is_root(x) == x < 2

\* x & !1
left(x) == x - (x % 2)

\* parent_left that halves x without stepping to the previous node first.
parent_left_half(x) == left(x \div 2)

\* parent_left that steps back by one slot, not by one node, before halving.
parent_left_one(x) == left((x - 1) \div 2)

parent_left(x) == left((x - 2) \div 2)

----------------------------------------------------------------------------
(* Sift-up.  The functions below return [v |-> the slice afterwards,       *)
(* ok |-> every debug_assert! passed on the way].                          *)

\* The pass whose first branch swaps the node's low with the parent's high.
push_step_cross(v, node_min, node_max) ==
    LET par_min == parent_left(node_min)
        par_max == par_min + 1
    IN  IF At(v, node_min) < At(v, par_min)
        THEN LET w == swap(v, par_max, node_min)
             IN  [v |-> w, node_min |-> par_min, node_max |-> par_max, go |-> TRUE,
                  ok |-> At(w, node_min) <= At(w, node_max)]
        ELSE IF At(v, par_max) < At(v, node_max)
        THEN LET w == swap(v, par_max, node_max)
             IN  [v |-> w, node_min |-> par_min, node_max |-> par_max, go |-> TRUE,
                  ok |-> At(w, node_min) <= At(w, node_max)]
        ELSE [v |-> v, node_min |-> node_min, node_max |-> node_max, go |-> FALSE,
              ok |-> TRUE]

\* One pass of the while loop's body, entered with !is_root(node_min):
\* go |-> the loop goes on (no return), ok |-> the debug_assert! passed,
\* node_min, node_max |-> the node the next pass starts from.
push_step(v, node_min, node_max) ==
    LET par_min == parent_left(node_min)
        par_max == par_min + 1
    IN  IF At(v, node_min) < At(v, par_min)
        THEN LET w == swap(v, par_min, node_min)
             IN  [v |-> w, node_min |-> par_min, node_max |-> par_max, go |-> TRUE,
                  ok |-> At(w, node_min) <= At(w, node_max)]
        ELSE IF At(v, par_max) < At(v, node_max)
        THEN LET w == swap(v, par_max, node_max)
             IN  [v |-> w, node_min |-> par_min, node_max |-> par_max, go |-> TRUE,
                  ok |-> At(w, node_min) <= At(w, node_max)]
        ELSE [v |-> v, node_min |-> node_min, node_max |-> node_max, go |-> FALSE,
              ok |-> TRUE]

RECURSIVE push_loop(_, _, _, _)
\* After the pass s of the loop's body from the slice v: next pass or return.
push_next(v, ok, s) ==
    IF s.go THEN push_loop(s.v, s.node_min, s.node_max, ok /\ s.ok)
    ELSE [v |-> v, ok |-> ok]

push_loop(v, node_min, node_max, ok) ==
    IF is_root(node_min) THEN [v |-> v, ok |-> ok]
    ELSE push_next(v, ok, push_step(v, node_min, node_max))

\* Up to the while loop: the node of the last item, its pair put in order.
push_entry(v) ==
    LET node_max == Len(v) - 1
        node_min == left(node_max)
    IN  [v |-> IF At(v, node_min) > At(v, node_max) THEN swap(v, node_min, node_max) ELSE v,
         node_min |-> node_min, node_max |-> node_max]

push_from(e, ok) == push_loop(e.v, e.node_min, e.node_max, ok)

interval_heap_push(v) == push_from(push_entry(v), Len(v) > 0)

----------------------------------------------------------------------------
(* Sift-down from the root's min slot.                                     *)

\* let c1 = left * 2 + 2: index of 1st child's left item
update_min_c1(lft) == lft * 2 + 2

\* let c2 = left * 2 + 4: index of 2nd child's left item
update_min_c2(lft) == lft * 2 + 4

\* update_min_loop without the fix of the pair descended into.
RECURSIVE update_min_loop_nofix(_, _)
update_min_loop_nofix(v, lft) ==
    LET c1 == lft * 2 + 2
        c2 == lft * 2 + 4
    IN  IF Len(v) <= c1 THEN v
        ELSE LET ch == IF Len(v) <= c2 \/ At(v, c1) < At(v, c2) THEN c1 ELSE c2
             IN  IF At(v, ch) < At(v, lft)
                 THEN update_min_loop_nofix(swap(v, ch, lft), ch)
                 ELSE v

\* update_min's pass indexing slot ch + 1 whether or not the slice has it.
update_min_step_unguarded(v, lft) ==
    LET c1 == lft * 2 + 2
        c2 == lft * 2 + 4
    IN  IF Len(v) <= c1 THEN [v |-> v, ch |-> lft, go |-> FALSE, idx |-> {}]
        ELSE LET ch == IF Len(v) <= c2 \/ At(v, c1) < At(v, c2) THEN c1 ELSE c2
                 picked == IF Len(v) <= c2 THEN {ch, lft} ELSE {c1, c2, ch, lft}
             IN  IF At(v, ch) < At(v, lft)
                 THEN LET w == swap(v, ch, lft)
                          right == ch + 1
                          x == IF right < Len(w) /\ At(w, ch) > At(w, right)
                               THEN swap(w, ch, right) ELSE w
                      IN  [v |-> x, ch |-> ch, go |-> TRUE, idx |-> picked \cup {right}]
                 ELSE [v |-> v, ch |-> ch, go |-> FALSE, idx |-> picked]

\* One pass of the loop's body from the left item lft: go |-> the loop goes
\* on from ch, idx |-> the slots the pass indexes.
update_min_step(v, lft) ==
    LET c1 == update_min_c1(lft)
        c2 == update_min_c2(lft)
    IN  IF Len(v) <= c1 THEN [v |-> v, ch |-> lft, go |-> FALSE, idx |-> {}]
        ELSE LET ch == IF Len(v) <= c2 \/ At(v, c1) < At(v, c2) THEN c1 ELSE c2
                 picked == IF Len(v) <= c2 THEN {ch, lft} ELSE {c1, c2, ch, lft}
             IN  IF At(v, ch) < At(v, lft)
                 THEN LET w == swap(v, ch, lft)
                          right == ch + 1
                          x == IF right < Len(w) /\ At(w, ch) > At(w, right)
                               THEN swap(w, ch, right) ELSE w
                      IN  [v |-> x, ch |-> ch, go |-> TRUE,
                           idx |-> picked \cup (IF right < Len(w) THEN {right} ELSE {})]
                 ELSE [v |-> v, ch |-> ch, go |-> FALSE, idx |-> picked]

RECURSIVE update_min_loop(_, _)
\* After the pass s of the loop's body: next pass from s.ch, or return.
update_min_next(s) == IF s.go THEN update_min_loop(s.v, s.ch) ELSE s.v

update_min_loop(v, lft) == update_min_next(update_min_step(v, lft))

update_min(v) ==
    [v |-> update_min_loop(v, 0), ok |-> At(v, 0) <= At(v, 1)]

----------------------------------------------------------------------------
(* Sift-down from the root's max slot.                                     *)

\* let c1 = right * 2 + 1: index of 1st child's right item
update_max_c1(right) == right * 2 + 1

\* let c2 = right * 2 + 3: index of 2nd child's right item
update_max_c2(right) == right * 2 + 3

\* update_max's pass with the pair fixed at the node left behind (right - 1, right).
update_max_step_parent(v, right) ==
    LET c1 == right * 2 + 1
        c2 == right * 2 + 3
    IN  IF Len(v) <= c1 THEN [v |-> v, ch |-> right, go |-> FALSE, idx |-> {}]
        ELSE LET ch == IF Len(v) <= c2 \/ At(v, c1) > At(v, c2) THEN c1 ELSE c2
                 picked == IF Len(v) <= c2 THEN {ch, right} ELSE {c1, c2, ch, right}
             IN  IF At(v, ch) > At(v, right)
                 THEN LET w == swap(v, ch, right)
                          lft == right - 1
                          x == IF At(w, lft) > At(w, right) THEN swap(w, lft, right) ELSE w
                      IN  [v |-> x, ch |-> ch, go |-> TRUE, idx |-> picked \cup {lft}]
                 ELSE [v |-> v, ch |-> ch, go |-> FALSE, idx |-> picked]

\* update_max's pass that goes down when the child's high is below the item's.
update_max_step_below(v, right) ==
    LET c1 == right * 2 + 1
        c2 == right * 2 + 3
    IN  IF Len(v) <= c1 THEN [v |-> v, ch |-> right, go |-> FALSE, idx |-> {}]
        ELSE LET ch == IF Len(v) <= c2 \/ At(v, c1) > At(v, c2) THEN c1 ELSE c2
                 picked == IF Len(v) <= c2 THEN {ch, right} ELSE {c1, c2, ch, right}
             IN  IF At(v, ch) < At(v, right)
                 THEN LET w == swap(v, ch, right)
                          lft == ch - 1
                          x == IF At(w, lft) > At(w, ch) THEN swap(w, lft, ch) ELSE w
                      IN  [v |-> x, ch |-> ch, go |-> TRUE, idx |-> picked \cup {lft}]
                 ELSE [v |-> v, ch |-> ch, go |-> FALSE, idx |-> picked]

\* One pass of the loop's body from the right item right: go |-> the loop
\* goes on from ch, idx |-> the slots the pass indexes.
update_max_step(v, right) ==
    LET c1 == update_max_c1(right)
        c2 == update_max_c2(right)
    IN  IF Len(v) <= c1 THEN [v |-> v, ch |-> right, go |-> FALSE, idx |-> {}]
        ELSE LET ch == IF Len(v) <= c2 \/ At(v, c1) > At(v, c2) THEN c1 ELSE c2
                 picked == IF Len(v) <= c2 THEN {ch, right} ELSE {c1, c2, ch, right}
             IN  IF At(v, ch) > At(v, right)
                 THEN LET w == swap(v, ch, right)
                          lft == ch - 1
                          x == IF At(w, lft) > At(w, ch) THEN swap(w, lft, ch) ELSE w
                      IN  [v |-> x, ch |-> ch, go |-> TRUE, idx |-> picked \cup {lft}]
                 ELSE [v |-> v, ch |-> ch, go |-> FALSE, idx |-> picked]

RECURSIVE update_max_loop(_, _)
\* After the pass s of the loop's body: next pass from s.ch, or return.
update_max_next(s) == IF s.go THEN update_max_loop(s.v, s.ch) ELSE s.v

update_max_loop(v, right) == update_max_next(update_max_step(v, right))

update_max(v) ==
    [v |-> update_max_loop(v, 1), ok |-> At(v, 0) <= At(v, 1)]

----------------------------------------------------------------------------
(* IntervalHeap::is_valid, by chunks of 2: the first chunk is the root,    *)
(* the i-th of the others (from 0) has its parent's left item at i & !1.    *)

\* is_valid without the comparison of a node's right item with its parent's.
is_valid_no2c(v) ==
    IF Len(v) >= 2
    THEN /\ At(v, 0) <= At(v, 1)
         /\ \A i \in 0 .. ((Len(v) + 1) \div 2) - 2 :
                LET p == left(i)
                    l == At(v, 2 * i + 2)
                    r == IF 2 * i + 3 < Len(v) THEN At(v, 2 * i + 3) ELSE l
                IN  l <= r /\ l >= At(v, p)
    ELSE TRUE

is_valid(v) ==
    IF Len(v) >= 2
    THEN /\ At(v, 0) <= At(v, 1)
         /\ \A i \in 0 .. ((Len(v) + 1) \div 2) - 2 :
                LET p == left(i)
                    l == At(v, 2 * i + 2)
                    r == IF 2 * i + 3 < Len(v) THEN At(v, 2 * i + 3) ELSE l
                IN  l <= r /\ l >= At(v, p) /\ r <= At(v, p + 1)
    ELSE TRUE

----------------------------------------------------------------------------
(* The public operations as functions of the Vec.  Each returns            *)
(* [v |-> data afterwards, ret |-> the return value, ok |-> every          *)
(* debug_assert! on the way passed].                                       *)

\* push that appends the item twice before the sift-up.
push_twice(v, item) ==
    LET r == interval_heap_push(Append(Append(v, item), item))
    IN  [v |-> r.v, ret |-> <<>>, ok |-> is_valid(v) /\ r.ok /\ is_valid(r.v)]

push(v, item) ==
    LET r == interval_heap_push(Append(v, item))
    IN  [v |-> r.v, ret |-> <<>>, ok |-> is_valid(v) /\ r.ok /\ is_valid(r.v)]

\* pop_min that removes the last item of a heap of at most 2, as pop_max does.
pop_min_truncate(v) ==
    IF Len(v) = 0 THEN [v |-> v, ret |-> <<>>, ok |-> TRUE]
    ELSE IF Len(v) <= 2
    THEN [v |-> SubSeq(v, 1, Len(v) - 1), ret |-> <<At(v, Len(v) - 1)>>, ok |-> TRUE]
    ELSE LET s == swap_remove(v, 0)
             r == update_min(s.v)
         IN  [v |-> r.v, ret |-> <<s.ret>>, ok |-> r.ok]

pop_min(v) ==
    IF Len(v) = 0 THEN [v |-> v, ret |-> <<>>, ok |-> is_valid(v)]
    ELSE IF Len(v) <= 2
    THEN LET s == swap_remove(v, 0)
         IN  [v |-> s.v, ret |-> <<s.ret>>, ok |-> is_valid(v) /\ is_valid(s.v)]
    ELSE LET s == swap_remove(v, 0)
             r == update_min(s.v)
         IN  [v |-> r.v, ret |-> <<s.ret>>, ok |-> is_valid(v) /\ r.ok /\ is_valid(r.v)]

\* pop_max without the repair after the swap_remove.
pop_max_norepair(v) ==
    IF Len(v) = 0 THEN [v |-> v, ret |-> <<>>, ok |-> TRUE]
    ELSE IF Len(v) <= 2
    THEN [v |-> SubSeq(v, 1, Len(v) - 1), ret |-> <<At(v, Len(v) - 1)>>, ok |-> TRUE]
    ELSE LET s == swap_remove(v, 1)
         IN  [v |-> s.v, ret |-> <<s.ret>>, ok |-> TRUE]

pop_max(v) ==
    IF Len(v) = 0 THEN [v |-> v, ret |-> <<>>, ok |-> is_valid(v)]
    ELSE IF Len(v) <= 2
    THEN LET w == SubSeq(v, 1, Len(v) - 1)
         IN  [v |-> w, ret |-> <<At(v, Len(v) - 1)>>, ok |-> is_valid(v) /\ is_valid(w)]
    ELSE LET s == swap_remove(v, 1)
             r == update_max(s.v)
         IN  [v |-> r.v, ret |-> <<s.ret>>, ok |-> is_valid(v) /\ r.ok /\ is_valid(r.v)]

min(v) ==
    [v |-> v, ret |-> IF Len(v) = 0 THEN <<>> ELSE <<At(v, 0)>>, ok |-> is_valid(v)]

\* max that reads slot 0 whatever the size.
max_slot0(v) ==
    [v |-> v, ret |-> IF Len(v) = 0 THEN <<>> ELSE <<At(v, 0)>>, ok |-> is_valid(v)]

max(v) ==
    [v |-> v,
     ret |-> IF Len(v) = 0 THEN <<>> ELSE IF Len(v) = 1 THEN <<At(v, 0)>> ELSE <<At(v, 1)>>,
     ok |-> is_valid(v)]

len(v) == [v |-> v, ret |-> <<Len(v)>>, ok |-> TRUE]

is_empty(v) == [v |-> v, ret |-> <<Len(v) = 0>>, ok |-> TRUE]

min_max(v) ==
    [v |-> v,
     ret |-> IF Len(v) = 0 THEN <<>>
             ELSE IF Len(v) = 1 THEN <<At(v, 0), At(v, 0)>>
             ELSE <<At(v, 0), At(v, 1)>>,
     ok |-> is_valid(v)]

\* for to in 2 .. vec.len() + 1 { interval_heap_push(&mut vec[..to]) }
\* One pass of the loop's body: call |-> the slice vec[..to] handed to interval_heap_push.
from_vec_step(vec, to) ==
    LET r == interval_heap_push(SubSeq(vec, 1, to))
    IN  [v |-> r.v \o SubSeq(vec, to + 1, Len(vec)), ok |-> r.ok, call |-> SubSeq(vec, 1, to)]

RECURSIVE from_vec_loop(_, _, _)
\* After the pass s for to: on to to + 1.
from_vec_next(s, to, ok) == from_vec_loop(s.v, to + 1, ok /\ s.ok)

from_vec_loop(vec, to, ok) ==
    IF to > Len(vec) THEN [v |-> vec, ok |-> ok]
    ELSE from_vec_next(from_vec_step(vec, to), to, ok)

\* The build with its loop starting at prefix length 3.
from_vec_from3(vec) ==
    LET r == from_vec_loop(vec, 3, TRUE)
    IN  [v |-> r.v, ret |-> <<>>, ok |-> r.ok /\ is_valid(r.v)]

from_vec_and_comparator(vec) ==
    LET r == from_vec_loop(vec, 2, TRUE)
    IN  [v |-> r.v, ret |-> <<>>, ok |-> r.ok /\ is_valid(r.v)]

\* The pass that moves the root's low, not its high, to the end of the range.
into_sorted_vec_step_low(vec, hsize) ==
    LET w == swap(vec, 0, hsize)
        r == update_max(SubSeq(w, 1, hsize))
    IN  [v |-> r.v \o SubSeq(w, hsize + 1, Len(w)), ok |-> r.ok, call |-> SubSeq(w, 1, hsize)]

\* for hsize in (2..vec.len()).rev() { vec.swap(1, hsize); update_max(&mut vec[..hsize]) }
\* One pass of the loop's body: call |-> the slice vec[..hsize] handed to update_max.
into_sorted_vec_step(vec, hsize) ==
    LET w == swap(vec, 1, hsize)
        r == update_max(SubSeq(w, 1, hsize))
    IN  [v |-> r.v \o SubSeq(w, hsize + 1, Len(w)), ok |-> r.ok, call |-> SubSeq(w, 1, hsize)]

RECURSIVE into_sorted_vec_loop(_, _, _)
\* After the pass s for hsize: on to hsize - 1.
into_sorted_vec_next(s, hsize, ok) == into_sorted_vec_loop(s.v, hsize - 1, ok /\ s.ok)

into_sorted_vec_loop(vec, hsize, ok) ==
    IF hsize < 2 THEN [v |-> vec, ok |-> ok]
    ELSE into_sorted_vec_next(into_sorted_vec_step(vec, hsize), hsize, ok)

\* The extraction with its loop starting one slot short of the last.
into_sorted_vec_short(v) ==
    LET r == into_sorted_vec_loop(v, Len(v) - 2, TRUE)
    IN  [v |-> <<>>, ret |-> r.v, ok |-> r.ok]

\* The heap is consumed: v is the data of the heap left to the program, none.
into_sorted_vec(v) ==
    LET r == into_sorted_vec_loop(v, Len(v) - 1, TRUE)
    IN  [v |-> <<>>, ret |-> r.v, ok |-> r.ok]

\* loop { let tmpy = ih.pop_min(); match (tmpx, tmpy) { (_, None) => break, ... } }
\* ret is the sequence of the items popped, in the order they came.
RECURSIVE fuzz_pop_min_loop(_, _, _)
fuzz_pop_min_loop(v, out, ok) ==
    LET r == pop_min(v)
    IN  IF r.ret = <<>> THEN [v |-> r.v, ret |-> out, ok |-> ok /\ r.ok]
        ELSE fuzz_pop_min_loop(r.v, out \o r.ret, ok /\ r.ok)

fuzz_pop_min(v) == fuzz_pop_min_loop(v, <<>>, TRUE)

RECURSIVE fuzz_pop_max_loop(_, _, _)
fuzz_pop_max_loop(v, out, ok) ==
    LET r == pop_max(v)
    IN  IF r.ret = <<>> THEN [v |-> r.v, ret |-> out, ok |-> ok /\ r.ok]
        ELSE fuzz_pop_max_loop(r.v, out \o r.ret, ok /\ r.ok)

fuzz_pop_max(v) == fuzz_pop_max_loop(v, <<>>, TRUE)

----------------------------------------------------------------------------
(* MutPeek.  t is the handle's PeekType.  inb is FALSE when an index is    *)
(* out of range, which panics in every build.                              *)

\* *peek = x
deref_mut(v, t, x) ==
    IF t = "Min" THEN [v EXCEPT ![1] = x]
    ELSE IF Len(v) = 1 THEN [v EXCEPT ![1] = x]
    ELSE [v EXCEPT ![2] = x]

\* drop without the swap of an out-of-order root pair.
drop_noswap(v, t) ==
    IF Len(v) < 2 THEN [v |-> v, ok |-> TRUE, inb |-> FALSE]
    ELSE LET r == IF t = "Min" THEN update_min(v)
                  ELSE IF t = "Max" THEN update_max(v)
                  ELSE [v |-> v, ok |-> TRUE]
         IN  [v |-> r.v, ok |-> r.ok, inb |-> TRUE]

\* drop that swaps the root pair when it is in order.
drop_inverted(v, t) ==
    IF Len(v) < 2 THEN [v |-> v, ok |-> TRUE, inb |-> FALSE]
    ELSE LET w == IF At(v, 0) < At(v, 1) THEN swap(v, 0, 1) ELSE v
             r == IF t = "Min" THEN update_min(w)
                  ELSE IF t = "Max" THEN update_max(w)
                  ELSE [v |-> w, ok |-> TRUE]
         IN  [v |-> r.v, ok |-> r.ok, inb |-> TRUE]

\* drop's root step without the swap.
drop_root_asis(v) == v

\* if !compares_le(&data[0], &data[1]) { data.swap(0, 1) }
drop_root(v) == IF ~(At(v, 0) <= At(v, 1)) THEN swap(v, 0, 1) ELSE v

drop(v, t) ==
    IF Len(v) < 2 THEN [v |-> v, ok |-> TRUE, inb |-> FALSE]
    ELSE LET w == drop_root(v)
             r == IF t = "Min" THEN update_min(w)
                  ELSE IF t = "Max" THEN update_max(w)
                  ELSE [v |-> w, ok |-> TRUE]
         IN  [v |-> r.v, ok |-> r.ok, inb |-> TRUE]

\* MutPeek::pop(mut self): pops, sets t to Sifted, and self is dropped on return.
\* mid is the data between the pop and the drop.
pop(v, t) ==
    LET r == IF t = "Min" THEN pop_min(v) ELSE pop_max(v)
        d == drop(r.v, "Sifted")
    IN  [v |-> d.v, ret |-> r.ret, mid |-> r.v, ok |-> r.ok /\ d.ok,
         inb |-> r.ret # <<>> /\ d.inb]

----------------------------------------------------------------------------
(* The program: one heap, built by IntervalHeap::new(), driven by a caller. *)
(* A MutPeek borrows the heap mutably, so while one is alive only the      *)
(* handle's own operations run.  A panic ends the run.                     *)

Init ==
    /\ data = <<>>
    /\ peek = "None"
    /\ debug \in BOOLEAN
    /\ panicked = FALSE
    /\ last = "new"
    /\ arg = <<>>
    /\ before = <<>>
    /\ held = <<>>
    /\ result = <<>>

\* The operation op(a) ran from data and gave r; inb: no index was out of range
\* and no unwrap met None.  On a panic data is what the operation had made of it.
Return(op, a, r, inb) ==
    /\ last' = op
    /\ arg' = a
    /\ before' = data
    /\ data' = r.v
    /\ IF ~inb \/ (debug /\ ~r.ok)
       THEN panicked' = TRUE /\ result' = <<>>
       ELSE panicked' = FALSE /\ result' = r.ret
    /\ UNCHANGED debug

Idle == ~panicked /\ peek = "None"

Push(item) ==
    /\ Idle
    /\ Len(data) < MaxLen
    /\ Return("push", <<item>>, push(data, item), TRUE)
    /\ held' = <<>>
    /\ UNCHANGED peek

PopMin ==
    /\ Idle
    /\ Return("pop_min", <<>>, pop_min(data), TRUE)
    /\ held' = <<>>
    /\ UNCHANGED peek

PopMax ==
    /\ Idle
    /\ Return("pop_max", <<>>, pop_max(data), TRUE)
    /\ held' = <<>>
    /\ UNCHANGED peek

Min ==
    /\ Idle
    /\ Return("min", <<>>, min(data), TRUE)
    /\ held' = <<>>
    /\ UNCHANGED peek

Max ==
    /\ Idle
    /\ Return("max", <<>>, max(data), TRUE)
    /\ held' = <<>>
    /\ UNCHANGED peek

MinMax ==
    /\ Idle
    /\ Return("min_max", <<>>, min_max(data), TRUE)
    /\ held' = <<>>
    /\ UNCHANGED peek

Length ==
    /\ Idle
    /\ Return("len", <<>>, len(data), TRUE)
    /\ held' = <<>>
    /\ UNCHANGED peek

IsEmpty ==
    /\ Idle
    /\ Return("is_empty", <<>>, is_empty(data), TRUE)
    /\ held' = <<>>
    /\ UNCHANGED peek

\* IntervalHeap::from(vec): the program builds its heap from vec instead of
\* with new(), so this runs first or not at all.
FromVec ==
    /\ Idle
    /\ last = "new"
    /\ \E vec \in Vecs(MaxLen) : Return("from_vec", vec, from_vec_and_comparator(vec), TRUE)
    /\ held' = <<>>
    /\ UNCHANGED peek

\* into_sorted_vec(self) consumes the heap; the program goes on with a new one.
IntoSortedVec ==
    /\ Idle
    /\ Return("into_sorted_vec", <<>>, into_sorted_vec(data), TRUE)
    /\ held' = <<>>
    /\ UNCHANGED peek

FuzzPopMin ==
    /\ Idle
    /\ Return("fuzz_pop_min", <<>>, fuzz_pop_min(data), TRUE)
    /\ held' = <<>>
    /\ UNCHANGED peek

FuzzPopMax ==
    /\ Idle
    /\ Return("fuzz_pop_max", <<>>, fuzz_pop_max(data), TRUE)
    /\ held' = <<>>
    /\ UNCHANGED peek

\* Acquire that hands out a handle on an empty heap too.
Acquire_unchecked(op, t) ==
    /\ Idle
    /\ Return(op, <<>>, [v |-> data, ret |-> <<>>, ok |-> is_valid(data)], TRUE)
    /\ held' = data
    /\ peek' = IF debug /\ ~is_valid(data) THEN "None" ELSE t

\* min_mut / max_mut: None on an empty heap, else a handle of type t.
Acquire(op, t) ==
    /\ Idle
    /\ Return(op, <<>>, [v |-> data, ret |-> <<>>, ok |-> is_valid(data)], TRUE)
    /\ held' = data
    /\ peek' = IF Len(data) = 0 \/ (debug /\ ~is_valid(data)) THEN "None" ELSE t

MinMut == Acquire("min_mut", "Min")

MaxMut == Acquire("max_mut", "Max")

\* *peek = x
DerefMut(x) ==
    /\ ~panicked
    /\ peek \in {"Min", "Max"}
    /\ Return("deref_mut", <<x>>, [v |-> deref_mut(data, peek, x), ret |-> <<>>, ok |-> TRUE], TRUE)
    /\ UNCHANGED <<peek, held>>

\* The handle goes out of scope.
Drop ==
    /\ ~panicked
    /\ peek \in {"Min", "Max"}
    /\ LET r == drop(data, peek)
       IN  Return(IF peek = "Min" THEN "drop_min" ELSE "drop_max", <<>>,
                  [v |-> r.v, ret |-> <<>>, ok |-> r.ok], r.inb)
    /\ peek' = "None"
    /\ UNCHANGED held

\* peek.pop()
Pop ==
    /\ ~panicked
    /\ peek \in {"Min", "Max"}
    /\ LET r == pop(data, peek)
       IN  Return(IF peek = "Min" THEN "take_min" ELSE "take_max", <<>>,
                  [v |-> r.v, ret |-> r.ret, ok |-> r.ok], r.inb)
    /\ peek' = "None"
    /\ UNCHANGED held

\* The operations of IntervalHeap without its handles.
NextHeap ==
    \/ \E item \in Values : Push(item)
    \/ PopMin
    \/ PopMax
    \/ Min
    \/ Max
    \/ MinMax
    \/ FromVec
    \/ IntoSortedVec
    \/ FuzzPopMin
    \/ FuzzPopMax

\* The operations of IntervalHeap without its handles, len and is_empty included.
NextRead ==
    \/ NextHeap
    \/ Length
    \/ IsEmpty

SpecRead == Init /\ [][NextRead]_vars

NextPeek ==
    \/ MinMut
    \/ MaxMut
    \/ \E x \in Values : DerefMut(x)
    \/ Drop
    \/ Pop

Next == NextHeap \/ NextPeek

SpecHeap == Init /\ [][NextHeap]_vars

Spec == Init /\ [][Next]_vars

\* A caller that takes min handles only.
NextMinMut ==
    \/ NextHeap
    \/ MinMut
    \/ \E x \in Values : DerefMut(x)
    \/ Drop
    \/ Pop

SpecMinMut == Init /\ [][NextMinMut]_vars

----------------------------------------------------------------------------
(* Vocabulary of the properties.                                           *)

\* Node k is slots 2k and 2k+1; an unpaired last node's value is both its low and high.
NumNodes(v) == (Len(v) + 1) \div 2

Low(v, k) == At(v, 2 * k)

High(v, k) == IF 2 * k + 1 < Len(v) THEN At(v, 2 * k + 1) ELSE At(v, 2 * k)

\* The three structural invariants, with node k's parent node (k-1)/2.
StructuralInvariants(v) ==
    \/ Len(v) < 2
    \/ \A k \in 0 .. NumNodes(v) - 1 :
          /\ Low(v, k) <= High(v, k)
          /\ k >= 1 => /\ Low(v, k) >= Low(v, (k - 1) \div 2)
                       /\ High(v, k) <= High(v, (k - 1) \div 2)

Items(v) == {v[i] : i \in DOMAIN v}

Least(v) == CHOOSE x \in Items(v) : \A y \in Items(v) : x <= y

Greatest(v) == CHOOSE x \in Items(v) : \A y \in Items(v) : x >= y

\* The multiset of the items of v.
BagOf(v) == [x \in Items(v) |-> Cardinality({i \in DOMAIN v : v[i] = x})]

Ascending(v) == \A i \in 1 .. Len(v) - 1 : v[i] <= v[i + 1]

Descending(v) == \A i \in 1 .. Len(v) - 1 : v[i] >= v[i + 1]

----------------------------------------------------------------------------
(* The addressing functions on their own, on the slot indices the sifts    *)
(* hand them: parent_left on a slot of a node other than the root,         *)
(* update_min's children of a left item, update_max's of a right item.     *)

ParentLeft ==
    /\ Idle
    /\ \E x \in 2 .. MaxIndex :
          Return("parent_left", <<x>>,
                 [v |-> data, ret |-> <<parent_left(x)>>, ok |-> ~is_root(x)], TRUE)
    /\ held' = <<>>
    /\ UNCHANGED peek

UpdateMinChildren ==
    /\ Idle
    /\ \E lft \in {x \in 0 .. MaxIndex : left(x) = x} :
          Return("update_min_children", <<lft>>,
                 [v |-> data, ret |-> <<update_min_c1(lft), update_min_c2(lft)>>, ok |-> TRUE],
                 TRUE)
    /\ held' = <<>>
    /\ UNCHANGED peek

UpdateMaxChildren ==
    /\ Idle
    /\ \E right \in {x \in 0 .. MaxIndex : left(x) # x} :
          Return("update_max_children", <<right>>,
                 [v |-> data, ret |-> <<update_max_c1(right), update_max_c2(right)>>, ok |-> TRUE],
                 TRUE)
    /\ held' = <<>>
    /\ UNCHANGED peek

NextIndex ==
    \/ ParentLeft
    \/ UpdateMinChildren
    \/ UpdateMaxChildren

SpecIndex == Init /\ [][NextIndex]_vars

----------------------------------------------------------------------------
(* test_is_valid: a heap put together from a vector as it is, with no      *)
(* sift, and asked is_valid().                                             *)

\* The vectors test_is_valid asserts on.
test_is_valid_vecs ==
    {<<>>, <<1>>, <<1, 1>>, <<1, 5>>, <<1, 5, 1>>, <<1, 5, 1, 1>>, <<1, 5, 5>>,
     <<1, 5, 5, 5>>, <<1, 5, 2, 4>>, <<1, 5, 2, 4, 3>>, <<1, 5, 2, 4, 3, 3>>,
     <<2, 1>>, <<1, 5, 4, 3>>, <<1, 5, 0>>, <<1, 5, 0, 5>>, <<1, 5, 6>>,
     <<1, 5, 1, 6>>, <<1, 5, 0, 6>>}

\* new(data).is_valid()
TestIsValid ==
    /\ Idle
    /\ last = "new"
    /\ \E vec \in Vecs(MaxLen) \cup test_is_valid_vecs :
          Return("is_valid", vec, [v |-> vec, ret |-> <<is_valid(vec)>>, ok |-> TRUE], TRUE)
    /\ held' = <<>>
    /\ UNCHANGED peek

SpecIsValid == Init /\ [][TestIsValid]_vars

----------------------------------------------------------------------------
(* The calls of update_min and update_max that an operation makes, each    *)
(* [f |-> the function, v |-> the slice it is handed], and the passes of   *)
(* their loops.                                                            *)

pop_min_calls(v) ==
    IF Len(v) > 2 THEN {[f |-> "update_min", v |-> swap_remove(v, 0).v]} ELSE {}

pop_max_calls(v) ==
    IF Len(v) > 2 THEN {[f |-> "update_max", v |-> swap_remove(v, 1).v]} ELSE {}

RECURSIVE into_sorted_vec_calls(_, _)
into_sorted_vec_calls_next(s, hsize) ==
    {[f |-> "update_max", v |-> s.call]} \cup into_sorted_vec_calls(s.v, hsize - 1)

into_sorted_vec_calls(vec, hsize) ==
    IF hsize < 2 THEN {}
    ELSE into_sorted_vec_calls_next(into_sorted_vec_step(vec, hsize), hsize)

RECURSIVE fuzz_pop_min_calls(_)
fuzz_pop_min_calls(v) ==
    IF Len(v) = 0 THEN {} ELSE pop_min_calls(v) \cup fuzz_pop_min_calls(pop_min(v).v)

RECURSIVE fuzz_pop_max_calls(_)
fuzz_pop_max_calls(v) ==
    IF Len(v) = 0 THEN {} ELSE pop_max_calls(v) \cup fuzz_pop_max_calls(pop_max(v).v)

drop_calls(v, t) ==
    IF Len(v) < 2 THEN {}
    ELSE IF t = "Min" THEN {[f |-> "update_min", v |-> drop_root(v)]}
    ELSE IF t = "Max" THEN {[f |-> "update_max", v |-> drop_root(v)]}
    ELSE {}

\* The calls made by the operation that led to the current state.
Calls ==
    IF last \in {"pop_min", "take_min"} THEN pop_min_calls(before)
    ELSE IF last \in {"pop_max", "take_max"} THEN pop_max_calls(before)
    ELSE IF last = "into_sorted_vec" THEN into_sorted_vec_calls(before, Len(before) - 1)
    ELSE IF last = "fuzz_pop_min" THEN fuzz_pop_min_calls(before)
    ELSE IF last = "fuzz_pop_max" THEN fuzz_pop_max_calls(before)
    ELSE IF last = "drop_min" THEN drop_calls(before, "Min")
    ELSE IF last = "drop_max" THEN drop_calls(before, "Max")
    ELSE {}

\* The slices on which the operation that led to the current state called
\* interval_heap_push.
RECURSIVE from_vec_calls(_, _)
from_vec_calls_next(s, to) == {s.call} \cup from_vec_calls(s.v, to + 1)

from_vec_calls(vec, to) ==
    IF to > Len(vec) THEN {} ELSE from_vec_calls_next(from_vec_step(vec, to), to)

PushCalls ==
    IF last = "push" THEN {Append(before, arg[1])}
    ELSE IF last = "from_vec" THEN from_vec_calls(arg, 2)
    ELSE {}

\* The passes of the while loop of interval_heap_push, each [v |-> the slice
\* before the pass, node_min, node_max |-> the node it is at, s |-> the pass].
RECURSIVE push_passes(_, _, _)
push_passes_next(v, node_min, node_max, s) ==
    {[v |-> v, node_min |-> node_min, node_max |-> node_max, s |-> s]}
        \cup (IF s.go THEN push_passes(s.v, s.node_min, s.node_max) ELSE {})

push_passes(v, node_min, node_max) ==
    IF is_root(node_min) THEN {}
    ELSE push_passes_next(v, node_min, node_max, push_step(v, node_min, node_max))

push_passes_from(e) == push_passes(e.v, e.node_min, e.node_max)

PushPasses == UNION {push_passes_from(push_entry(c)) : c \in PushCalls}

\* The passes of update_min's loop from the left item lft of v, each
\* [v |-> the slice before the pass, at |-> lft, s |-> the pass].
RECURSIVE update_min_passes(_, _)
update_min_passes_next(v, lft, s) ==
    {[v |-> v, at |-> lft, s |-> s]} \cup (IF s.go THEN update_min_passes(s.v, s.ch) ELSE {})

update_min_passes(v, lft) == update_min_passes_next(v, lft, update_min_step(v, lft))

\* The passes of update_max's loop from the right item right of v.
RECURSIVE update_max_passes(_, _)
update_max_passes_next(v, right, s) ==
    {[v |-> v, at |-> right, s |-> s]} \cup (IF s.go THEN update_max_passes(s.v, s.ch) ELSE {})

update_max_passes(v, right) == update_max_passes_next(v, right, update_max_step(v, right))

MinPasses == UNION {update_min_passes(c.v, 0) : c \in {c \in Calls : c.f = "update_min"}}

MaxPasses == UNION {update_max_passes(c.v, 1) : c \in {c \in Calls : c.f = "update_max"}}

\* The vector after each pass of into_sorted_vec's loop, each
\* [hsize |-> the pass's hsize, v |-> the whole vector after it].
RECURSIVE into_sorted_vec_passes(_, _)
into_sorted_vec_passes_next(s, hsize) ==
    {[hsize |-> hsize, v |-> s.v]} \cup into_sorted_vec_passes(s.v, hsize - 1)

into_sorted_vec_passes(vec, hsize) ==
    IF hsize < 2 THEN {}
    ELSE into_sorted_vec_passes_next(into_sorted_vec_step(vec, hsize), hsize)

SortPasses ==
    IF last = "into_sorted_vec" THEN into_sorted_vec_passes(before, Len(before) - 1) ELSE {}

----------------------------------------------------------------------------
(* A caller that gives the heap up once is_valid fails: every operation    *)
(* and every handle starts from a heap on which is_valid holds.            *)

OnValid == is_valid(data)

NextValid ==
    \/ OnValid /\ \E item \in Values : Push(item)
    \/ OnValid /\ PopMin
    \/ OnValid /\ PopMax
    \/ OnValid /\ Min
    \/ OnValid /\ Max
    \/ OnValid /\ MinMax
    \/ OnValid /\ FromVec
    \/ OnValid /\ IntoSortedVec
    \/ OnValid /\ FuzzPopMin
    \/ OnValid /\ FuzzPopMax
    \/ OnValid /\ MinMut
    \/ OnValid /\ MaxMut
    \/ \E x \in Values : DerefMut(x)
    \/ Drop
    \/ Pop

SpecValid == Init /\ [][NextValid]_vars

----------------------------------------------------------------------------
\* C1: from an empty heap or one built from any sequence, after every push,
\* pop_min and pop_max in any interleaving the backing sequence satisfies the
\* three structural invariants (and no operation has panicked).
C1_InvariantsHold == ~panicked /\ StructuralInvariants(data)

\* A pop_min from a full heap whose repair moved items.
C1_Witness ==
    /\ last = "pop_min"
    /\ Len(before) = 7
    /\ data # swap_remove(before, 0).v

\* C2: a max handle acquired on a valid heap of at least 2 items, written with
\* any value and released, leaves a heap that satisfies the structural
\* invariants and whose max() is the greatest item, whatever the size.
C2_MaxHandleRepairs ==
    (last = "drop_max" /\ Len(held) >= 2 /\ StructuralInvariants(held))
        => /\ ~panicked
           /\ StructuralInvariants(data)
           /\ max(data).ret = <<Greatest(data)>>

\* C3: a min handle acquired on a valid heap of at least 2 items, written with
\* any value and released, leaves a heap that satisfies the structural
\* invariants and whose min() is the smallest item, whatever the size.
C3_MinHandleRepairs ==
    (last = "drop_min" /\ Len(held) >= 2 /\ StructuralInvariants(held))
        => /\ ~panicked
           /\ StructuralInvariants(data)
           /\ min(data).ret = <<Least(data)>>

\* A min handle on a 7-item heap released after a write above the old max.
C3_Witness ==
    /\ last = "drop_min"
    /\ Len(held) = 7
    /\ StructuralInvariants(held)
    /\ At(before, 0) > At(held, 1)
    /\ ~panicked

\* C4: acquiring a handle on any non-empty valid heap, writing through it or
\* not, and releasing it never panics.
C4_HandleNeverPanics ==
    (/\ last \in {"min_mut", "max_mut", "deref_mut", "drop_min", "drop_max"}
     /\ Len(held) >= 1
     /\ StructuralInvariants(held))
        => ~panicked

\* C5: on any valid heap of n >= 1 items the handle's take returns the
\* minimum (min handle) or the maximum (max handle), removes exactly that
\* item, leaves a valid heap, and take-then-release does not panic.
C5_TakeRemovesExtreme ==
    (/\ last \in {"take_min", "take_max"}
     /\ Len(before) >= 1
     /\ StructuralInvariants(before))
        => /\ ~panicked
           /\ result = <<IF last = "take_min" THEN Least(before) ELSE Greatest(before)>>
           /\ Len(data) = Len(before) - 1
           /\ BagOf(data \o result) = BagOf(before)
           /\ StructuralInvariants(data)

\* C6: on a non-empty heap reached by pushes, pops and bulk build, min() is
\* the minimum of the items, max() the maximum, and min_max() the pair of them.
C6_PeekExtremes ==
    Len(data) >= 1 =>
        /\ last = "min" => result = <<Least(data)>>
        /\ last = "max" => result = <<Greatest(data)>>
        /\ last = "min_max" => /\ result = <<Least(data), Greatest(data)>>
                               /\ result = min(data).ret \o max(data).ret

\* max() read on a heap of 7 items whose extremes differ.
C6_Witness ==
    /\ last = "max"
    /\ Len(data) = 7
    /\ result # <<At(data, 0)>>

\* C7: pop_min returns the minimum and pop_max the maximum of a non-empty
\* heap, and removes exactly one occurrence of it.
C7_PopExtreme ==
    (last \in {"pop_min", "pop_max"} /\ Len(before) >= 1)
        => /\ result = <<IF last = "pop_min" THEN Least(before) ELSE Greatest(before)>>
           /\ Len(data) = Len(before) - 1
           /\ BagOf(data \o result) = BagOf(before)

\* A pop_max from a full heap whose repair moved items.
C7_Witness ==
    /\ last = "pop_max"
    /\ Len(before) = 7
    /\ data # swap_remove(before, 1).v

\* C8: popping the min until None yields the items in non-decreasing order,
\* popping the max until None yields them in non-increasing order; the heap
\* is empty afterwards.
C8_DrainSorted ==
    /\ last = "fuzz_pop_min" =>
           Ascending(result) /\ BagOf(result) = BagOf(before) /\ data = <<>>
    /\ last = "fuzz_pop_max" =>
           Descending(result) /\ BagOf(result) = BagOf(before) /\ data = <<>>

\* A drain of a full heap holding three distinct values.
C8_Witness ==
    /\ last = "fuzz_pop_max"
    /\ Len(before) = 7
    /\ Cardinality(Items(result)) = 3

\* C9: into_sorted_vec returns the items of the heap in ascending order.
C9_IntoSortedVec ==
    last = "into_sorted_vec" =>
        /\ Len(result) = Len(before)
        /\ Ascending(result)
        /\ BagOf(result) = BagOf(before)

\* A full heap of three distinct values sorted.
C9_Witness ==
    /\ last = "into_sorted_vec"
    /\ Len(before) = 7
    /\ Cardinality(Items(result)) = 3

\* C10: bulk build from any sequence keeps the length and the items and
\* yields a valid heap, so min_max() is (minimum, maximum) of the input.
C10_FromVec ==
    /\ last = "from_vec" =>
           /\ Len(data) = Len(arg)
           /\ BagOf(data) = BagOf(arg)
           /\ StructuralInvariants(data)
           /\ min_max(data).ret =
                  IF arg = <<>> THEN <<>> ELSE <<Least(arg), Greatest(arg)>>
    /\ min_max(from_vec_and_comparator(<<5, 1, 6, 4>>).v).ret = <<1, 6>>
    /\ Len(from_vec_and_comparator(<<5, 1, 6, 4>>).v) = 4
    /\ min_max(from_vec_and_comparator(<<2, 1>>).v).ret = <<1, 2>>
    /\ min_max(from_vec_and_comparator(<<2, 1, 3>>).v).ret = <<1, 3>>

\* A heap built from a descending 7-item sequence, which the build reorders.
C10_Witness ==
    /\ last = "from_vec"
    /\ Len(arg) = 7
    /\ Descending(arg)
    /\ data # arg

\* C11: on an empty heap min, max, min_max, pop_min, pop_max, min_mut and
\* max_mut all report absent (None, and no handle), none panics, and the heap
\* is still empty.
C11_EmptyAbsent ==
    (last \in {"min", "max", "min_max", "pop_min", "pop_max", "min_mut", "max_mut"}
        /\ before = <<>>)
    => /\ ~panicked
       /\ result = <<>>
       /\ peek = "None"
       /\ data = <<>>

C11_Witness == last = "max_mut" /\ before = <<>> /\ data = <<>> /\ peek = "None"

\* C12: once the handle's pop() has run, dropping the handle repairs nothing
\* and modifies nothing: the data after the drop is the data right after
\* the pop_min / pop_max inside pop(), for every heap size.
C12_NoRepairAfterTake ==
    last \in {"take_min", "take_max"}
    => data = pop(before, IF last = "take_min" THEN "Min" ELSE "Max").mid

C12_Witness ==
    /\ last = "take_max"
    /\ ~panicked
    /\ Len(before) >= 5
    /\ before # held
    /\ data = pop_max(before).v

\* C13 as stated: in update_max, after the swap with the chosen child's high
\* slot, the pair-order fix is applied at the node left behind (slots
\* right - 1 and right of the parent), not at the child descended into.
C13_FixAtParent ==
    \A p \in MaxPasses :
        p.s.go => LET w == swap(p.v, p.s.ch, p.at)
                  IN  p.s.v = IF At(w, p.at - 1) > At(w, p.at)
                              THEN swap(w, p.at - 1, p.at) ELSE w

\* C13 amended: in update_max, after the swap with the chosen child's high
\* slot ch, the pair-order fix is applied at the child descended into: the
\* child's pair (ch - 1, ch) is in order after the pass, and the pass changes
\* no slot other than the parent's high slot and the child's two slots.
C13_FixAtChild ==
    \A p \in MaxPasses :
        p.s.go => /\ At(p.s.v, p.s.ch - 1) <= At(p.s.v, p.s.ch)
                  /\ \A i \in 0 .. Len(p.v) - 1 :
                        i \notin {p.at, p.s.ch - 1, p.s.ch} => At(p.s.v, i) = At(p.v, i)

\* A pop_max whose update_max went down to a child and swapped the child's pair.
C13_Witness ==
    /\ last = "pop_max"
    /\ ~panicked
    /\ \E p \in MaxPasses :
          /\ p.s.go
          /\ At(p.s.v, p.s.ch - 1) # At(p.v, p.s.ch - 1)
          /\ At(p.s.v, p.s.ch - 1) < At(p.s.v, p.s.ch)

\* C14: in the sift-up of interval_heap_push, called on a slice whose items
\* but the last form a valid heap, no pass of the loop finds both swap
\* conditions true (the node's low below the parent's low and the node's
\* high above the parent's high), and the slice is a valid heap afterwards.
C14_OneBranchPerLevel ==
    /\ \A p \in PushPasses :
          LET par_min == parent_left(p.node_min)
              par_max == par_min + 1
          IN  ~(At(p.v, p.node_min) < At(p.v, par_min) /\ At(p.v, par_max) < At(p.v, p.node_max))
    /\ \A c \in PushCalls :
          StructuralInvariants(SubSeq(c, 1, Len(c) - 1))
              => StructuralInvariants(interval_heap_push(c).v)

\* A push whose item climbed two levels by the high side.
C14_Witness ==
    /\ last = "push"
    /\ ~panicked
    /\ \E p, q \in PushPasses :
          /\ p.s.go /\ q.s.go
          /\ p.node_min # q.node_min
          /\ At(p.v, parent_left(p.node_min) + 1) < At(p.v, p.node_max)
          /\ At(q.v, parent_left(q.node_min) + 1) < At(q.v, q.node_max)

\* C15: every slot that a pass of update_min or update_max indexes lies in
\* the slice it was handed (the whole data, or vec[..hsize] in
\* into_sorted_vec); update_min skips the pair fix, touching no slot ch + 1,
\* when the node it went down to is the unpaired last one; and the slot
\* ch - 1 that update_max's pair fix indexes is a slot of the slice.
C15_IndicesInRange ==
    /\ \A p \in MinPasses \cup MaxPasses : p.s.idx \subseteq 0 .. Len(p.v) - 1
    /\ \A p \in MinPasses :
          (p.s.go /\ p.s.ch + 1 >= Len(p.v))
          => /\ p.s.ch + 1 \notin p.s.idx
             /\ p.s.v = swap(p.v, p.s.ch, p.at)
    /\ \A p \in MaxPasses : p.s.go => p.s.ch - 1 \in 2 .. Len(p.v) - 2

\* A pop_min whose update_min went down to the unpaired last node.
C15_Witness ==
    /\ last = "pop_min"
    /\ ~panicked
    /\ \E p \in MinPasses : p.s.go /\ p.s.ch + 1 = Len(p.v) /\ p.s.ch = 4

\* C16: at every call of update_min and update_max made by pop_min, pop_max,
\* into_sorted_vec and the drop of a handle, from a valid heap and whatever
\* was written through the handle, the slice has slots 0 and 1 and
\* v[0] <= v[1], which is what the functions assert first.
C16_SiftPrecondition ==
    \A c \in Calls : Len(c.v) >= 2 /\ At(c.v, 0) <= At(c.v, 1)

\* The drop of a max handle through which a value below the min was written.
C16_Witness ==
    /\ last = "drop_max"
    /\ ~panicked
    /\ Len(before) >= 4
    /\ At(before, 0) > At(before, 1)
    /\ Calls # {}

\* C17: in interval_heap_push, called on a slice whose items but the last
\* form a valid heap, after either swap of a pass the node the pass is at
\* has its low at most its high, v[node_min] <= v[node_max], so the
\* debug_assert! before the climb to the parent holds.
C17_PushAssertion ==
    /\ \A p \in PushPasses :
          p.s.go => p.s.ok /\ At(p.s.v, p.node_min) <= At(p.s.v, p.node_max)
    /\ \A c \in PushCalls : interval_heap_push(c).ok

\* A bulk build in which a paired node's low went up by the first branch.
C17_Witness ==
    /\ last = "from_vec"
    /\ ~panicked
    /\ \E p \in PushPasses :
          /\ p.s.go
          /\ p.node_min # p.node_max
          /\ At(p.v, p.node_min) < At(p.v, parent_left(p.node_min))
          /\ At(p.s.v, p.node_min) < At(p.s.v, p.node_max)

\* C18: in into_sorted_vec, after the pass for hsize the first hsize items
\* form a valid heap, the items from hsize on are in ascending order and
\* each is at least every item before hsize, and the vector holds the same
\* multiset of items as the heap did.
C18_SortLoopInvariant ==
    \A p \in SortPasses :
        LET prefix == SubSeq(p.v, 1, p.hsize)
            suffix == SubSeq(p.v, p.hsize + 1, Len(p.v))
        IN  /\ StructuralInvariants(prefix)
            /\ Ascending(suffix)
            /\ \A x \in Items(suffix) : \A y \in Items(prefix) : x >= y
            /\ BagOf(p.v) = BagOf(before)

\* An extraction from a heap of 7 items, not all equal, seen halfway.
C18_Witness ==
    /\ last = "into_sorted_vec"
    /\ ~panicked
    /\ Len(before) = 7
    /\ \E p \in SortPasses :
          /\ p.hsize = 4
          /\ p.v # before
          /\ At(p.v, 4) < At(p.v, 6)
          /\ At(p.v, 0) < At(p.v, 1)

\* C19: is_valid returns true exactly for the sequences that satisfy the
\* structural invariants (node k's parent being node (k-1)/2), and false for
\* every other one, among them [2,1], [1,5,4,3], [1,5,0], [1,5,6] and [1,5,1,6].
C19_IsValidExact ==
    last = "is_valid"
    => /\ ~panicked
       /\ data = arg
       /\ result = <<StructuralInvariants(arg)>>
       /\ arg \in {<<2, 1>>, <<1, 5, 4, 3>>, <<1, 5, 0>>, <<1, 5, 6>>, <<1, 5, 1, 6>>}
             => result = <<FALSE>>

\* A sequence of 7 that breaks the containment in its parent only at node 3.
C19_Witness ==
    /\ last = "is_valid"
    /\ Len(arg) = 7
    /\ result = <<FALSE>>
    /\ StructuralInvariants(SubSeq(arg, 1, 6))
    /\ At(arg, 6) <= At(arg, 1)
    /\ At(arg, 6) >= At(arg, 0)

\* C20: the drop of a handle on a heap of 2 items or more changes only the
\* order: a write changes nothing but the handle's slot, which held the min
\* (max) at acquisition, and after the drop the data has the length it had
\* at acquisition and the multiset it had then with one occurrence of that
\* min (max) replaced by the value last written.
C20_ReleaseKeepsItems ==
    /\ (last = "deref_mut" /\ Len(held) >= 2)
       => data = [held EXCEPT ![IF peek = "Min" THEN 1 ELSE 2] = arg[1]]
    /\ (last \in {"drop_min", "drop_max"} /\ Len(held) >= 2)
       => LET slot == IF last = "drop_min" THEN 1 ELSE 2
          IN  /\ held[slot] = (IF last = "drop_min" THEN Least(held) ELSE Greatest(held))
              /\ before = [held EXCEPT ![slot] = before[slot]]
              /\ Len(data) = Len(held)
              /\ BagOf(data) = BagOf([held EXCEPT ![slot] = before[slot]])

\* The drop of a max handle after a write that the repair had to sift down.
C20_Witness ==
    /\ last = "drop_max"
    /\ ~panicked
    /\ Len(held) >= 4
    /\ before # held
    /\ data # before
    /\ BagOf(data) # BagOf(held)

\* C21: a min or max handle acquired on a valid heap of 2 items or more and
\* dropped with the data as it was at acquisition (nothing written, or the
\* same value written back) leaves every slot as it was, duplicates or not,
\* and does not panic.
C21_ReleaseUnwritten ==
    (last \in {"drop_min", "drop_max"} /\ Len(held) >= 2 /\ before = held)
    => data = held /\ ~panicked

\* The drop of an unwritten max handle on a heap of 6 with duplicates.
C21_Witness ==
    /\ last = "drop_max"
    /\ before = held
    /\ data = held
    /\ Len(held) = 6
    /\ At(held, 1) = At(held, 3)
    /\ At(held, 1) = At(held, 5)
    /\ At(held, 0) < At(held, 1)

\* C22: min, max, min_max, len and is_empty, and pop_min and pop_max on an
\* empty heap, leave the data as it was; push makes the data one item longer
\* and adds exactly the pushed item to its multiset, however many swaps the
\* sift-up makes.
C22_Frame ==
    /\ last \in {"min", "max", "min_max", "len", "is_empty"} => data = before /\ ~panicked
    /\ (last \in {"pop_min", "pop_max"} /\ before = <<>>) => data = <<>> /\ ~panicked
    /\ last = "len" => result = <<Len(before)>>
    /\ last = "is_empty" => result = <<before = <<>> >>
    /\ last = "push" => /\ Len(data) = Len(before) + 1
                        /\ BagOf(data) = BagOf(Append(before, arg[1]))
                        /\ ~panicked

\* A push onto 6 items whose item went up to the root's low slot in two swaps.
C22_Witness ==
    /\ last = "push"
    /\ ~panicked
    /\ Len(before) = 6
    /\ At(data, 0) = arg[1]
    /\ At(data, 0) < At(before, 0)
    /\ At(data, 2) = At(before, 0)
    /\ At(data, 6) = At(before, 2)

\* C23: for every slot i >= 2, parent_left(i) is 2 * ((i div 2 - 1) div 2),
\* the low slot of node (k - 1) div 2 for the node k = i div 2 that holds i,
\* and is the same for both slots of a node; the children update_min takes
\* from the low slot left, 2*left+2 and 2*left+4, are exactly the low slots
\* whose parent_left is left, and the children update_max takes from the
\* high slot right, 2*right+1 and 2*right+3, are exactly the high slots
\* whose node has its parent_left at right - 1.
C23_NodeAddressing ==
    /\ last = "parent_left"
       => LET i == arg[1]
              k == i \div 2
          IN  /\ ~panicked
              /\ result = <<2 * ((k - 1) \div 2)>>
              /\ parent_left(2 * k) = result[1]
              /\ parent_left(2 * k + 1) = result[1]
    /\ last = "update_min_children"
       => /\ result = <<2 * arg[1] + 2, 2 * arg[1] + 4>>
          /\ \A j \in 2 .. 2 * MaxIndex + 6 :
                (left(j) = j /\ parent_left(j) = arg[1]) <=> (j = result[1] \/ j = result[2])
    /\ last = "update_max_children"
       => /\ result = <<2 * arg[1] + 1, 2 * arg[1] + 3>>
          /\ \A j \in 2 .. 2 * MaxIndex + 6 :
                (left(j) # j /\ parent_left(j) = arg[1] - 1) <=> (j = result[1] \/ j = result[2])

\* The parent of the high slot 13 of node 6 is node 2, whose low slot is 4.
C23_Witness == last = "parent_left" /\ arg = <<13>> /\ result = <<4>>

====
